---- MODULE Spec2Model ----
(***************************************************************************)
(* ShipShape (src/ShipShape.py): the EDI extractor and its application.    *)
(*                                                                         *)
(* A Python string is a sequence of tokens.  A token is one of the ten     *)
(* tags the patterns of extract_data name, or one character of other text. *)
(* The empty string is << >>.  A path is the sequence of its components.   *)
(* Of the application, the model keeps what its handlers decide on: the    *)
(* two path variables, self.results and the two button states.  The tree,  *)
(* the raw text and the status bar only display them; the message box a    *)
(* handler shows is kept, as the handler's visible outcome.                *)
(***************************************************************************)
EXTENDS Integers, Sequences, FiniteSets, TLC

VARIABLES
    content,            \* extract_data: the argument
    results,            \* extract_data: the list being built / returned
    pc,                 \* extract_data: "start", "loop", "done"; "idle" elsewhere
    pos,                \* extract_data: where finditer resumes in content
    line_block,         \* extract_data: match.group(1) of the current line
    raised,             \* the exception the last direct call raised, or NoException
    messagebox,         \* app: the last message box shown, or NoMessage
    dirs,               \* file system: the directories that exist
    out_files,          \* file system: destination path -> text, or NoFile
    input_file_path,    \* app: StringVar of the input entry
    output_file_path,   \* app: StringVar of the output entry
    self_results,       \* app: self.results
    extract_button,     \* app: state of the Extract button
    save_button         \* app: state of the Save button

vars == <<content, results, pc, pos, line_block, raised, messagebox, dirs,
          out_files,
          input_file_path, output_file_path, self_results, extract_button,
          save_button>>

extractVars == <<content, results, pc, pos, line_block>>
fsVars == <<dirs, out_files>>
appVars == <<input_file_path, output_file_path, self_results, extract_button,
             save_button, messagebox>>

---------------------------------------------------------------------------
(* Tokens *)

LineOpen == "<ShipConfirmLine>"
LineClose == "</ShipConfirmLine>"
DeliveryOpen == "<delivery_id>"
DeliveryClose == "</delivery_id>"
ProductOpen == "<ProductServiceId>"
ProductClose == "</ProductServiceId>"
SerialsOpen == "<ShipConfirmSerials>"
SerialsClose == "</ShipConfirmSerials>"
SerialOpen == "<serial_number>"
SerialClose == "</serial_number>"

NL == "\n"
CR == "\r"
Comma == ","
Quote == "\""

Min(S) == CHOOSE x \in S : \A y \in S : x <= y

RECURSIVE Flatten(_)
Flatten(ss) == IF ss = << >> THEN << >> ELSE Head(ss) \o Flatten(Tail(ss))

SeqsUpTo(S, n) == UNION {[1..k -> S] : k \in 0..n}

---------------------------------------------------------------------------
(* Regular expressions of extract_data.  Each pattern is                   *)
(* open (.*?) close, or open ([\s\S]*?) close when dotall.                 *)

NoMatch == [found |-> FALSE, lo |-> 0, hi |-> 0]

\* the positions where the lazy group can end for a match starting at i:
\* "." does not match a newline unless dotall
MatchEnds(s, open, close, dotall, i) ==
    {j \in (i + 1)..Len(s) :
        /\ s[j] = close
        /\ \A k \in (i + 1)..(j - 1) : s[k] # close
        /\ dotall \/ \A k \in (i + 1)..(j - 1) : s[k] # NL}

\* leftmost match at or after position from
re_search(s, open, close, dotall, from) ==
    LET starts == {i \in from..Len(s) :
                      s[i] = open /\ MatchEnds(s, open, close, dotall, i) # {}}
    IN  IF starts = {} THEN NoMatch
        ELSE LET i == Min(starts)
             IN  [found |-> TRUE, lo |-> i,
                  hi |-> Min(MatchEnds(s, open, close, dotall, i))]

group1(s, m) == SubSeq(s, m.lo + 1, m.hi - 1)

\* first_group with the "if m else" guard lost: str(None) instead of ""
first_group_unguarded(s, open, close) ==
    LET m == re_search(s, open, close, FALSE, 1)
    IN  IF m.found THEN group1(s, m) ELSE <<"None">>

\* m.group(1) if m else ""
first_group(s, open, close) ==
    LET m == re_search(s, open, close, FALSE, 1)
    IN  IF m.found THEN group1(s, m) ELSE << >>

\* all non-overlapping dotall matches, left to right: their group(1)s
RECURSIVE re_finditer(_, _, _, _)
re_finditer(s, open, close, from) ==
    LET m == re_search(s, open, close, TRUE, from)
    IN  IF ~m.found THEN << >>
        ELSE <<group1(s, m)>> \o re_finditer(s, open, close, m.hi + 1)

---------------------------------------------------------------------------
(* EDIExtractor.extract_data *)

Record(d, p, n) ==
    [delivery_id |-> d, product_service_id |-> p, serial_number |-> n]

\* the inner for loop: one record per ShipConfirmSerials block
RECURSIVE serials_loop(_, _, _, _, _)
serials_loop(block, from, delivery_id, product_service_id, acc) ==
    LET serials_match == re_search(block, SerialsOpen, SerialsClose, TRUE, from)
    IN  IF ~serials_match.found THEN acc
        ELSE LET serials_block == group1(block, serials_match)
                 serial_number == first_group(serials_block, SerialOpen, SerialClose)
             IN  serials_loop(block, serials_match.hi + 1, delivery_id,
                     product_service_id,
                     [results |-> Append(acc.results,
                          Record(delivery_id, product_service_id, serial_number)),
                      serials_found |-> TRUE])

\* line_records with the "if not serials_found" test lost
line_records_always_default(block) ==
    LET delivery_id == first_group(block, DeliveryOpen, DeliveryClose)
        product_service_id == first_group(block, ProductOpen, ProductClose)
        r == serials_loop(block, 1, delivery_id, product_service_id,
                          [results |-> << >>, serials_found |-> FALSE])
    IN  Append(r.results, Record(delivery_id, product_service_id, << >>))

\* line_records with the record of a line without serials lost
line_records_no_default(block) ==
    LET delivery_id == first_group(block, DeliveryOpen, DeliveryClose)
        product_service_id == first_group(block, ProductOpen, ProductClose)
        r == serials_loop(block, 1, delivery_id, product_service_id,
                          [results |-> << >>, serials_found |-> FALSE])
    IN  r.results

\* the body of the outer for loop: the records one line block appends
line_records(block) ==
    LET delivery_id == first_group(block, DeliveryOpen, DeliveryClose)
        product_service_id == first_group(block, ProductOpen, ProductClose)
        r == serials_loop(block, 1, delivery_id, product_service_id,
                          [results |-> << >>, serials_found |-> FALSE])
    IN  IF ~r.serials_found
        THEN Append(r.results, Record(delivery_id, product_service_id, << >>))
        ELSE r.results

\* the whole function, as its callers see it
RECURSIVE extract_loop(_, _, _)
extract_loop(text, from, acc) ==
    LET match == re_search(text, LineOpen, LineClose, TRUE, from)
    IN  IF ~match.found THEN acc
        ELSE extract_loop(text, match.hi + 1,
                          acc \o line_records(group1(text, match)))

extract_data(text) == extract_loop(text, 1, << >>)

---------------------------------------------------------------------------
(* extract_data, one iteration of its outer loop per step *)

\* results = [] and the compiled line pattern (lines 51-54)
ED_Begin ==
    /\ pc = "start"
    /\ pc' = "loop"
    /\ results' = << >>
    /\ pos' = 1
    /\ UNCHANGED <<content, line_block, raised, fsVars, appVars>>

\* ED_Line inserting at the front instead of appending
ED_Line_prepend ==
    /\ pc = "loop"
    /\ LET match == re_search(content, LineOpen, LineClose, TRUE, pos)
       IN  /\ match.found
           /\ line_block' = group1(content, match)
           /\ results' = line_records(group1(content, match)) \o results
           /\ pos' = match.hi + 1
    /\ UNCHANGED <<content, pc, raised, fsVars, appVars>>

\* one ShipConfirmLine match: its fields, its serial groups, its records
ED_Line ==
    /\ pc = "loop"
    /\ LET match == re_search(content, LineOpen, LineClose, TRUE, pos)
       IN  /\ match.found
           /\ line_block' = group1(content, match)
           /\ results' = results \o line_records(group1(content, match))
           /\ pos' = match.hi + 1
    /\ UNCHANGED <<content, pc, raised, fsVars, appVars>>

\* finditer is exhausted: return results
ED_Return ==
    /\ pc = "loop"
    /\ ~re_search(content, LineOpen, LineClose, TRUE, pos).found
    /\ pc' = "done"
    /\ UNCHANGED <<content, results, pos, line_block, raised, fsVars, appVars>>

---------------------------------------------------------------------------
(* Input texts of the extraction runs *)

MaxItems == 3       \* parts after the header of a rich line block
MaxBlocks == 2      \* line blocks of a multi-line document
MaxRaw == 3         \* tokens of an arbitrary token string

Elem(open, v, close) == <<open>> \o v \o <<close>>
D(v) == Elem(DeliveryOpen, v, DeliveryClose)
P(v) == Elem(ProductOpen, v, ProductClose)
S(v) == Elem(SerialsOpen, v, SerialsClose)
N(v) == Elem(SerialOpen, v, SerialClose)
L(v) == Elem(LineOpen, v, LineClose)

Headers ==
    { << >>,
      D(<<"D1">>),
      P(<<"P1">>),
      D(<<"D1">>) \o P(<<"P1">>),
      P(<<"P1">>) \o <<NL>> \o D(<<"D1">>),
      D(<<"D1">>) \o D(<<"D2">>) \o P(<<"P1">>),
      D(<<"D1", NL, "D2">>) \o P(<<"P1">>),
      D(<< >>) \o P(<<ProductOpen, "P1">>) }

Items ==
    { S(N(<<"A">>)),
      S(N(<<"B">>)),
      S(<< >>),
      S(N(<<"A">>) \o N(<<"B">>)),
      S(<<NL>> \o N(<<"A", NL>>)),
      N(<<"C">>),
      <<NL>> }

RichDocs ==
    {L(h \o Flatten(items)) : h \in Headers, items \in SeqsUpTo(Items, MaxItems)}

SimpleBlocks ==
    { L(D(<<"D2">>) \o P(<<"P2">>)),
      L(D(<<"D1">>) \o S(N(<<"B">>)) \o S(N(<<"A">>))),
      L(D(<<"D1">>) \o S(N(<<"A">>))),
      <<"x">> }

MultiDocs == {Flatten(bs) : bs \in SeqsUpTo(SimpleBlocks, MaxBlocks)}

RawAlphabet ==
    {LineOpen, LineClose, DeliveryOpen, DeliveryClose, ProductOpen, ProductClose,
     SerialsOpen, SerialsClose, SerialOpen, SerialClose, "a", NL}

RawDocs == SeqsUpTo(RawAlphabet, MaxRaw)

Inputs == RichDocs \cup MultiDocs \cup RawDocs

-------------------------------------------------------------------------------------------------------------------------------------------------
(* File system *)

NoException == <<"no exception">>
NoFile == <<"no file">>
NoPath == << >>
NoMessage == <<"no message">>
DISABLED == "disabled"
NORMAL == "normal"
\* ~/Documents/edi_extract_<time>.csv, a directory that need not exist
DefaultOutput == <<"new", "sub", "out.csv">>

os_path_dirname(path) == SubSeq(path, 1, Len(path) - 1)

\* the files the input paths name: text files hold their bytes
TextFile(t) == [kind |-> "text", bytes |-> t]
InFiles ==
    (<<"in", "a.xml">> :> TextFile(
        L(D(<<"D1">>) \o <<CR, NL>> \o P(<<"P1">>) \o S(N(<<"A">>)) \o S(N(<<"B">>)))))
    @@ (<<"in", "b.xml">> :> TextFile(
        L(D(<<"D2">>) \o P(<<"P2">>)) \o <<NL>> \o L(D(<<"D3">>) \o S(N(<<"C">>)))))
    @@ (<<"in", "mac.xml">> :> TextFile(
        L(D(<<"D4", CR>>) \o <<CR>> \o P(<<"P4">>))))
    @@ (<<"in", "none.txt">> :> TextFile(<<"x", NL, LineOpen, "y">>))
    @@ (<<"in", "bad.bin">> :> [kind |-> "binary", bytes |-> << >>])
    @@ (<<"in", "gone.xml">> :> [kind |-> "missing", bytes |-> << >>])

InPaths == DOMAIN InFiles

os_path_exists(path) == path \in InPaths /\ InFiles[path].kind # "missing"

\* text mode with newline=None: "\r\n" and "\r" are read as "\n"
RECURSIVE universal_newlines(_)
universal_newlines(t) ==
    IF t = << >> THEN << >>
    ELSE IF Head(t) = CR
         THEN IF Len(t) >= 2 /\ t[2] = NL
              THEN <<NL>> \o universal_newlines(Tail(Tail(t)))
              ELSE <<NL>> \o universal_newlines(Tail(t))
         ELSE <<Head(t)>> \o universal_newlines(Tail(t))

\* open(filename, 'r', encoding='utf-8') and file.read()
read_text(filename) ==
    LET f == InFiles[filename]
    IN  IF f.kind = "missing"
        THEN [exc |-> <<"FileNotFoundError", filename>>, text |-> << >>]
        ELSE IF f.kind = "binary"
        THEN [exc |-> <<"UnicodeDecodeError">>, text |-> << >>]
        ELSE [exc |-> NoException, text |-> universal_newlines(f.bytes)]

\* the destinations; "ro" is a directory that exists and cannot be written
OutPaths ==
    {<<"out.csv">>, <<"new", "sub", "out.csv">>,
     <<"ro", "x", "out.csv">>, <<"ro", "out.csv">>}
InitDirs == {<<"in">>, <<"ro">>}

Writable(dir) == dir = << >> \/ dir[1] # "ro"
Prefixes(dir) == {SubSeq(dir, 1, n) : n \in 1..Len(dir)}

\* open(output_file, 'w'): the exception it raises, or NoException
open_for_write(path, ds) ==
    LET dir == os_path_dirname(path)
    IN  IF dir # << >> /\ dir \notin ds THEN <<"FileNotFoundError", path>>
        ELSE IF ~Writable(dir) THEN <<"PermissionError", path>>
        ELSE NoException

\* os.makedirs(dir): the exception it raises, or NoException
os_makedirs(dir) ==
    IF Writable(dir) THEN NoException ELSE <<"PermissionError", dir>>

---------------------------------------------------------------------------
(* EDIExtractor.extract_from_file *)

\* extract_from_file returning what it has when the read fails
extract_from_file_swallow(filename) ==
    LET r == read_text(filename)
    IN  [exc |-> NoException, value |-> extract_data(InFiles[filename].bytes)]

extract_from_file(filename) ==
    LET r == read_text(filename)
    IN  IF r.exc # NoException
        THEN [exc |-> <<"Exception", "Error processing file", filename, r.exc>>,
              value |-> << >>]
        ELSE [exc |-> NoException, value |-> extract_data(r.text)]

---------------------------------------------------------------------------
(* EDIExtractor.save_to_csv: csv.DictWriter, excel dialect, QUOTE_MINIMAL *)

fieldnames == <<"delivery_id", "product_service_id", "serial_number">>

\* a field is quoted when it holds the delimiter, the quote character or a
\* character of the line terminator "\r\n"
needs_quotes(field) ==
    \E i \in 1..Len(field) : field[i] \in {Comma, Quote, CR, NL}

RECURSIVE double_quotes(_)
double_quotes(field) ==
    IF field = << >> THEN << >>
    ELSE IF Head(field) = Quote
         THEN <<Quote, Quote>> \o double_quotes(Tail(field))
         ELSE <<Head(field)>> \o double_quotes(Tail(field))

\* csv_field without the doubling of embedded quotes
csv_field_no_doubling(field) ==
    IF needs_quotes(field) THEN <<Quote>> \o field \o <<Quote>> ELSE field

csv_field(field) ==
    IF needs_quotes(field) THEN <<Quote>> \o double_quotes(field) \o <<Quote>>
    ELSE field

csv_row(fields) ==
    csv_field(fields[1]) \o <<Comma>> \o csv_field(fields[2]) \o <<Comma>>
        \o csv_field(fields[3]) \o <<CR, NL>>

\* the row DictWriter makes of a record: its values in fieldnames order
RowOf(r) == <<r.delivery_id, r.product_service_id, r.serial_number>>

\* writeheader() and writerows(results)
csv_text(rs) ==
    csv_row(<<<<fieldnames[1]>>, <<fieldnames[2]>>, <<fieldnames[3]>>>>)
        \o Flatten([i \in 1..Len(rs) |-> csv_row(RowOf(rs[i]))])

\* the exception save_to_csv raises, or NoException, and the files after it
save_to_csv(rs, output_file, ds, files) ==
    LET e == open_for_write(output_file, ds)
    IN  IF e # NoException THEN [exc |-> e, files |-> files]
        ELSE [exc |-> NoException,
              files |-> [files EXCEPT ![output_file] = csv_text(rs)]]

---------------------------------------------------------------------------
(* Direct calls of the EDIExtractor functions *)

\* results = EDIExtractor.extract_data(content)
Api_extract_data ==
    /\ results' = extract_data(content)
    /\ raised' = NoException
    /\ UNCHANGED <<content, pc, pos, line_block, fsVars, appVars>>

\* results = EDIExtractor.extract_from_file(filename)
Api_extract_from_file(filename) ==
    /\ LET o == extract_from_file(filename)
       IN  /\ results' = o.value
           /\ raised' = o.exc
    /\ UNCHANGED <<content, pc, pos, line_block, fsVars, appVars>>

\* EDIExtractor.save_to_csv(results, output_file)
Api_save_to_csv(output_file) ==
    /\ LET w == save_to_csv(results, output_file, dirs, out_files)
       IN  /\ out_files' = w.files
           /\ raised' = w.exc
    /\ UNCHANGED <<extractVars, dirs, appVars>>

---------------------------------------------------------------------------
(* EDIExtractorApp *)

\* update_button_states enabling Save on the input path instead of the results
update_button_states_on_path(path, res) ==
    [extract_button |-> IF path # NoPath THEN NORMAL ELSE DISABLED,
     save_button |-> IF path # NoPath THEN NORMAL ELSE DISABLED]

update_button_states(path, res) ==
    [extract_button |-> IF path # NoPath THEN NORMAL ELSE DISABLED,
     save_button |-> IF res # << >> THEN NORMAL ELSE DISABLED]

\* a write of input_file_path, which the trace answers with update_button_states
set_input_file_path(path) ==
    /\ input_file_path' = path
    /\ extract_button' = update_button_states(path, self_results).extract_button
    /\ save_button' = update_button_states(path, self_results).save_button

\* the Browse button of the input section; NoPath is a cancelled dialog
browse_input_file(file_path) ==
    /\ IF file_path # NoPath
       THEN set_input_file_path(file_path)
       ELSE UNCHANGED <<input_file_path, extract_button, save_button>>
    /\ UNCHANGED <<extractVars, raised, fsVars, output_file_path, self_results,
                   messagebox>>

\* the Browse button of the output section
browse_output_file(file_path) ==
    /\ IF file_path # NoPath
       THEN output_file_path' = file_path
       ELSE UNCHANGED output_file_path
    /\ UNCHANGED <<extractVars, raised, fsVars, input_file_path, self_results,
                   extract_button, save_button, messagebox>>

\* typing in the input entry, whose textvariable is input_file_path
edit_input_entry(text) ==
    /\ set_input_file_path(text)
    /\ UNCHANGED <<extractVars, raised, fsVars, output_file_path, self_results,
                   messagebox>>

\* typing in the output entry, whose textvariable is output_file_path
edit_output_entry(text) ==
    /\ output_file_path' = text
    /\ UNCHANGED <<extractVars, raised, fsVars, input_file_path, self_results,
                   extract_button, save_button, messagebox>>

\* clear_results: self.results = [] and update_button_states()
clear_results ==
    [self_results |-> << >>,
     buttons |-> update_button_states(input_file_path, << >>)]

\* the Extract button
App_extract_data ==
    /\ extract_button = NORMAL
    /\ LET input_file == input_file_path
       IN  IF input_file = NoPath
           THEN /\ messagebox' = <<"Error", "Please select an input file.">>
                /\ UNCHANGED <<self_results, extract_button, save_button>>
           ELSE IF ~os_path_exists(input_file)
           THEN /\ messagebox' = <<"Error", "File not found", input_file>>
                /\ UNCHANGED <<self_results, extract_button, save_button>>
           ELSE LET cleared == clear_results
                    o == extract_from_file(input_file)
                IN  IF o.exc # NoException
                    THEN /\ self_results' = cleared.self_results
                         /\ extract_button' = cleared.buttons.extract_button
                         /\ save_button' = cleared.buttons.save_button
                         /\ messagebox' = <<"Error", o.exc>>
                    ELSE IF o.value = << >>
                    THEN /\ self_results' = o.value
                         /\ extract_button' = cleared.buttons.extract_button
                         /\ save_button' = cleared.buttons.save_button
                         /\ messagebox' = <<"Info", "No data found in the selected file.">>
                    ELSE /\ self_results' = o.value
                         /\ extract_button' =
                              update_button_states(input_file, o.value).extract_button
                         /\ save_button' =
                              update_button_states(input_file, o.value).save_button
                         /\ UNCHANGED messagebox
    /\ UNCHANGED <<extractVars, raised, fsVars, input_file_path, output_file_path>>

\* the Save button without the os.makedirs of the output directory
App_save_to_csv_no_makedirs ==
    /\ save_button = NORMAL
    /\ IF self_results = << >>
       THEN /\ messagebox' = <<"Error", "No data to save. Please extract data first.">>
            /\ UNCHANGED fsVars
       ELSE IF output_file_path = NoPath
       THEN /\ messagebox' = <<"Error", "Please select an output file location.">>
            /\ UNCHANGED fsVars
       ELSE LET w == save_to_csv(self_results, output_file_path, dirs, out_files)
            IN  /\ UNCHANGED dirs
                /\ out_files' = w.files
                /\ messagebox' =
                     IF w.exc # NoException
                     THEN <<"Error", "Failed to save file", w.exc>>
                     ELSE <<"Success", "Data saved to", output_file_path>>
    /\ UNCHANGED <<extractVars, raised, input_file_path, output_file_path,
                   self_results, extract_button, save_button>>

\* the Save button
App_save_to_csv ==
    /\ save_button = NORMAL
    /\ IF self_results = << >>
       THEN /\ messagebox' = <<"Error", "No data to save. Please extract data first.">>
            /\ UNCHANGED fsVars
       ELSE IF output_file_path = NoPath
       THEN /\ messagebox' = <<"Error", "Please select an output file location.">>
            /\ UNCHANGED fsVars
       ELSE LET output_file == output_file_path
                output_dir == os_path_dirname(output_file)
                make == output_dir # << >> /\ output_dir \notin dirs
                e == IF make THEN os_makedirs(output_dir) ELSE NoException
            IN  IF e # NoException
                THEN /\ messagebox' = <<"Error", "Failed to save file", e>>
                     /\ UNCHANGED fsVars
                ELSE LET made == IF make THEN dirs \cup Prefixes(output_dir) ELSE dirs
                         w == save_to_csv(self_results, output_file, made, out_files)
                     IN  /\ dirs' = made
                         /\ out_files' = w.files
                         /\ messagebox' =
                              IF w.exc # NoException
                              THEN <<"Error", "Failed to save file", w.exc>>
                              ELSE <<"Success", "Data saved to", output_file>>
    /\ UNCHANGED <<extractVars, raised, input_file_path, output_file_path,
                   self_results, extract_button, save_button>>

-----
(* Specification of one run of extract_data *)

\* the application as constructed (lines 129-224) and the file system
InitIdle ==
    /\ raised = NoException
    /\ messagebox = NoMessage
    /\ dirs = InitDirs
    /\ out_files = [p \in OutPaths |-> NoFile]
    /\ input_file_path = NoPath
    /\ output_file_path = DefaultOutput
    /\ self_results = << >>
    /\ extract_button = DISABLED
    /\ save_button = DISABLED

InitExtract ==
    /\ content \in Inputs
    /\ results = << >>
    /\ pc = "start"
    /\ pos = 1
    /\ line_block = << >>
    /\ InitIdle

NextExtract == ED_Begin \/ ED_Line \/ ED_Return

SpecExtract == InitExtract /\ [][NextExtract]_vars

---------------------------------------------------------------------------
(* Specification of a caller of the EDIExtractor functions *)

MaxValLen == 3      \* characters of a field value of the texts written as CSV

CsvChars == {"a", Comma, Quote, CR}
CsvValues(n) == SeqsUpTo(CsvChars, n)

CsvInputs ==
    {L(D(v) \o P(w) \o S(N(v)) \o S(N(w))) :
        v \in CsvValues(MaxValLen), w \in CsvValues(1) \cup {<<NL>>}}

InitCsv ==
    /\ content \in CsvInputs
    /\ results = << >>
    /\ pc = "idle"
    /\ pos = 1
    /\ line_block = << >>
    /\ InitIdle

NextCsv ==
    \/ Api_extract_data
    \/ \E p \in OutPaths : Api_save_to_csv(p)

SpecCsv == InitCsv /\ [][NextCsv]_vars

\* a caller of the three functions, on the texts of the files
ApiTexts == {InFiles[p].bytes : p \in InPaths}

InitApi ==
    /\ content \in ApiTexts
    /\ results = << >>
    /\ pc = "idle"
    /\ pos = 1
    /\ line_block = << >>
    /\ InitIdle

NextApi ==
    \/ Api_extract_data
    \/ \E p \in InPaths : Api_extract_from_file(p)
    \/ \E p \in OutPaths : Api_save_to_csv(p)

SpecApi == InitApi /\ [][NextApi]_vars

---------------------------------------------------------------------------
(* Specification of the application *)

InitApp ==
    /\ content = << >>
    /\ results = extract_data(InFiles[<<"in", "b.xml">>].bytes)
    /\ pc = "idle"
    /\ pos = 1
    /\ line_block = << >>
    /\ InitIdle

NextApp ==
    \/ \E p \in {q \in InPaths : os_path_exists(q)} \cup {NoPath} : browse_input_file(p)
    \/ \E p \in OutPaths \cup {NoPath} : browse_output_file(p)
    \/ \E p \in InPaths \cup {NoPath} : edit_input_entry(p)
    \/ \E p \in OutPaths \cup {NoPath} : edit_output_entry(p)
    \/ App_extract_data
    \/ App_save_to_csv

SpecApp == InitApp /\ [][NextApp]_vars

\* the application driven by its buttons, and a caller that writes results
\* with save_to_csv itself
NextProgram ==
    \/ \E p \in {q \in InPaths : os_path_exists(q)} \cup {NoPath} : browse_input_file(p)
    \/ \E p \in OutPaths \cup {NoPath} : browse_output_file(p)
    \/ App_extract_data
    \/ App_save_to_csv
    \/ \E p \in OutPaths : Api_save_to_csv(p)

SpecProgram == InitApp /\ [][NextProgram]_vars

---------------------------------------------------------------------------
(* Properties of extract_data (SpecExtract) *)

\* the serial groups of a line block, in order
SerialGroups(block) == re_finditer(block, SerialsOpen, SerialsClose, 1)

\* the line blocks of a text, in order
LineBlocks(text) == re_finditer(text, LineOpen, LineClose, 1)

\* a step of the outer loop, and the records it added
LineStep == pc = "loop" /\ pos' # pos
Appended == Len(results') >= Len(results) /\ SubSeq(results', 1, Len(results)) = results
NewRecords == SubSeq(results', Len(results) + 1, Len(results'))

\* at least one line block has been processed; line_block is the last one
Processed == pc \in {"loop", "done"} /\ pos > 1

\* s holds no open tag followed somewhere by a close tag
NoPair(s, open, close) ==
    ~\E i \in 1..Len(s) : \E j \in (i + 1)..Len(s) : s[i] = open /\ s[j] = close

\* the text between the first open tag and the next close tag after it,
\* newlines included; "" when there is no such pair
VerbatimField(s, open, close) ==
    IF NoPair(s, open, close) THEN << >>
    ELSE LET i == Min({a \in 1..Len(s) : s[a] = open})
             after == {b \in (i + 1)..Len(s) : s[b] = close}
         IN  IF after = {} THEN << >> ELSE SubSeq(s, i + 1, Min(after) - 1)

\* C1: a line block with k >= 1 serial groups adds exactly k records to the
\* output, the j-th carrying the serial number of the j-th group, and all k
\* carrying the delivery_id and product_service_id of the block.
C1_OneRecordPerSerialGroup ==
    [][LineStep =>
        LET groups == SerialGroups(line_block')
            k == Len(groups)
        IN  k >= 1 =>
              /\ Appended
              /\ Len(NewRecords) = k
              /\ \A j \in 1..k :
                    NewRecords[j] =
                        Record(first_group(line_block', DeliveryOpen, DeliveryClose),
                               first_group(line_block', ProductOpen, ProductClose),
                               first_group(groups[j], SerialOpen, SerialClose))]_vars

\* a line with delivery id, product id and at least two serial groups was
\* processed and its records end the output, serials in group order
C1_Witness ==
    /\ Processed
    /\ LET groups == SerialGroups(line_block)
           k == Len(groups)
           n == Len(results)
       IN  /\ k >= 2
           /\ n >= k
           /\ VerbatimField(groups[1], SerialOpen, SerialClose) = <<"A">>
           /\ VerbatimField(groups[2], SerialOpen, SerialClose) = <<"B">>
           /\ results[n - k + 1] = Record(<<"D1">>, <<"P1">>, <<"A">>)
           /\ results[n - k + 2] = Record(<<"D1">>, <<"P1">>, <<"B">>)

\* C2: a line block without serial groups adds exactly one record, with an
\* empty serial_number and the block's delivery_id and product_service_id; a
\* block with k >= 1 serial groups adds k records and no extra one.
C2_OneRecordWithoutSerialGroups ==
    [][LineStep =>
        LET k == Len(SerialGroups(line_block'))
        IN  /\ Appended
            /\ k = 0 =>
                 NewRecords =
                     <<Record(first_group(line_block', DeliveryOpen, DeliveryClose),
                              first_group(line_block', ProductOpen, ProductClose),
                              << >>)>>
            /\ k >= 1 => Len(NewRecords) = k]_vars

\* a line {D2, P2} without serial groups was processed and gave {D2, P2, ""}
C2_Witness ==
    /\ Processed
    /\ SerialGroups(line_block) = << >>
    /\ NoPair(line_block, SerialsOpen, SerialsClose)
    /\ results # << >>
    /\ results[Len(results)] = Record(<<"D2">>, <<"P2">>, << >>)

\* C3: the output is the concatenation of the records of the line blocks in
\* document order: while the loop runs it holds the records of the blocks
\* that end before pos, at the end those of all blocks; a text without a
\* line tag pair gives the empty sequence.
C3_DocumentOrder ==
    /\ pc = "loop" =>
          LET blocks == LineBlocks(SubSeq(content, 1, pos - 1))
          IN  results = Flatten([i \in 1..Len(blocks) |-> line_records(blocks[i])])
    /\ pc = "done" =>
          LET blocks == LineBlocks(content)
          IN  /\ results = Flatten([i \in 1..Len(blocks) |-> line_records(blocks[i])])
              /\ NoPair(content, LineOpen, LineClose) => results = << >>

\* the run ended on two lines whose records are neither sorted nor distinct
C3_Witness ==
    /\ pc = "done"
    /\ Len(LineBlocks(content)) = 2
    /\ results = <<Record(<<"D2">>, <<"P2">>, << >>),
                   Record(<<"D1">>, << >>, <<"B">>),
                   Record(<<"D1">>, << >>, <<"A">>)>>

\* C4: every field of a record is the verbatim text between the first opening
\* tag of its name and the next closing tag, embedded newlines included.
C4_VerbatimFields ==
    Processed =>
        LET groups == SerialGroups(line_block)
            k == Len(groups)
            n == IF k = 0 THEN 1 ELSE k
            base == Len(results) - n
        IN  \A j \in 1..n :
              /\ results[base + j].delivery_id =
                     VerbatimField(line_block, DeliveryOpen, DeliveryClose)
              /\ results[base + j].product_service_id =
                     VerbatimField(line_block, ProductOpen, ProductClose)
              /\ k >= 1 => results[base + j].serial_number =
                     VerbatimField(groups[j], SerialOpen, SerialClose)

\* C5: a missing delivery, product or serial-number tag pair gives "" in that
\* field; the records of the line are still produced and their other fields
\* are what the line holds.
C5_MissingTagsGiveEmptyFields ==
    [][LineStep =>
        LET groups == SerialGroups(line_block')
            k == Len(groups)
        IN  /\ Appended
            /\ Len(NewRecords) = (IF k = 0 THEN 1 ELSE k)
            /\ \A j \in 1..Len(NewRecords) :
                 LET r == NewRecords[j]
                 IN  /\ NoPair(line_block', DeliveryOpen, DeliveryClose)
                            => r.delivery_id = << >>
                     /\ NoPair(line_block', ProductOpen, ProductClose)
                            => r.product_service_id = << >>
                     /\ (k = 0 \/ NoPair(groups[j], SerialOpen, SerialClose))
                            => r.serial_number = << >>
                     /\ NL \notin {line_block'[i] : i \in 1..Len(line_block')} =>
                          /\ r.delivery_id =
                               VerbatimField(line_block', DeliveryOpen, DeliveryClose)
                          /\ r.product_service_id =
                               VerbatimField(line_block', ProductOpen, ProductClose)
                          /\ k >= 1 => r.serial_number =
                               VerbatimField(groups[j], SerialOpen, SerialClose)]_vars

\* a line without delivery tag whose only serial group has no serial number:
\* its record keeps the product id and has "" in the two missing fields
C5_Witness ==
    /\ Processed
    /\ NoPair(line_block, DeliveryOpen, DeliveryClose)
    /\ Len(SerialGroups(line_block)) = 1
    /\ NoPair(SerialGroups(line_block)[1], SerialOpen, SerialClose)
    /\ results # << >>
    /\ results[Len(results)] = Record(<< >>, <<"P1">>, << >>)

---------------------------------------------------------------------------
(* Properties of extract_from_file and save_to_csv (SpecApi, SpecCsv) *)

\* C6: when the file cannot be read or decoded, extract_from_file returns no
\* record and raises an error that carries the path and the cause; when it
\* can, the result is extract_data of the text read from the file.
C6_ReadFailureOrFullText ==
    [][\A p \in InPaths : Api_extract_from_file(p) =>
          LET f == InFiles[p]
          IN  IF f.kind = "text"
              THEN /\ raised' = NoException
                   /\ results' = extract_data(universal_newlines(f.bytes))
              ELSE /\ results' = << >>
                   /\ raised' # NoException
                   /\ raised'[3] = p
                   /\ raised'[4] = (IF f.kind = "missing"
                                    THEN <<"FileNotFoundError", p>>
                                    ELSE <<"UnicodeDecodeError">>)]_vars

\* the call on the undecodable file has raised, and no record is held
C6_Witness ==
    /\ raised = <<"Exception", "Error processing file", <<"in", "bad.bin">>,
                  <<"UnicodeDecodeError">>>>
    /\ results = << >>

\* A reader of comma-separated text under the minimal-quoting rule: a quote
\* at the start of a field opens a quoted field, in which "" is one quote and
\* commas and line ends are data; outside quotes a comma ends the field and
\* "\r", "\n" or "\r\n" ends the row.
RECURSIVE csv_scan(_, _, _, _, _, _)
csv_scan(t, i, st, field, row, rows) ==
    IF i > Len(t)
    THEN IF st = "start_record" THEN rows ELSE Append(rows, Append(row, field))
    ELSE LET c == t[i]
         IN  IF st = "start_record"
             THEN IF c \in {CR, NL}
                  THEN csv_scan(t, i + 1, "start_record", << >>, << >>, rows)
                  ELSE csv_scan(t, i, "start_field", << >>, << >>, rows)
             ELSE IF st = "in_quoted"
             THEN IF c = Quote
                  THEN csv_scan(t, i + 1, "quote_in_quoted", field, row, rows)
                  ELSE csv_scan(t, i + 1, "in_quoted", Append(field, c), row, rows)
             ELSE IF st = "start_field" /\ c = Quote
             THEN csv_scan(t, i + 1, "in_quoted", field, row, rows)
             ELSE IF st = "quote_in_quoted" /\ c = Quote
             THEN csv_scan(t, i + 1, "in_quoted", Append(field, c), row, rows)
             ELSE IF c = Comma
             THEN csv_scan(t, i + 1, "start_field", << >>, Append(row, field), rows)
             ELSE IF c \in {CR, NL}
             THEN csv_scan(t, i + 1, "start_record", << >>, << >>,
                           Append(rows, Append(row, field)))
             ELSE csv_scan(t, i + 1, "in_field", Append(field, c), row, rows)

csv_parse(t) == csv_scan(t, 1, "start_record", << >>, << >>, << >>)

HeaderRow == <<<<fieldnames[1]>>, <<fieldnames[2]>>, <<fieldnames[3]>>>>

\* C8: the file save_to_csv writes, read back under the minimal-quoting
\* rule, is the header row followed by one row per record, equal field by
\* field and in the same order to the records written.
C8_CsvRoundTrip ==
    [][\A p \in OutPaths : (Api_save_to_csv(p) /\ raised' = NoException) =>
          /\ out_files'[p] # NoFile
          /\ csv_parse(out_files'[p]) =
                <<HeaderRow>> \o [i \in 1..Len(results) |-> RowOf(results[i])]]_vars

\* the records of the input text were written, one of them with a comma, a
\* quote and a carriage return among its fields, and the file was read back
C8_Witness ==
    /\ results = extract_data(content)
    /\ Len(results) = 2
    /\ results[1].delivery_id = <<Quote, Comma>>
    /\ results[1].product_service_id = <<CR>>
    /\ raised = NoException
    /\ out_files[<<"out.csv">>] = csv_text(results)
    /\ csv_parse(out_files[<<"out.csv">>])[2] = RowOf(results[1])

---------------------------------------------------------------------------
(* Properties of the application (SpecApp, SpecProgram) *)

\* the directory of the destination is missing and can be created
MissingParent(path) ==
    /\ path # NoPath
    /\ os_path_dirname(path) # << >>
    /\ os_path_dirname(path) \notin dirs
    /\ Writable(os_path_dirname(path))

\* C7 as claimed: EDIExtractor.save_to_csv, given a destination in a writable
\* location whose parent directories are missing, creates them and writes
\* the file.
C7_SaveToCsvCreatesParents ==
    [][\A p \in OutPaths : (Api_save_to_csv(p) /\ MissingParent(p)) =>
          /\ raised' = NoException
          /\ Prefixes(os_path_dirname(p)) \subseteq dirs'
          /\ out_files'[p] = csv_text(results)]_vars

\* C7 as amended: the Save handler of the application creates the missing
\* parent directories of the destination and then writes the file, while
\* EDIExtractor.save_to_csv called by itself creates no directory and raises.
C7_HandlerCreatesParents ==
    [][/\ (App_save_to_csv /\ self_results # << >> /\ MissingParent(output_file_path)) =>
            /\ Prefixes(os_path_dirname(output_file_path)) \subseteq dirs'
            /\ out_files'[output_file_path] = csv_text(self_results)
            /\ messagebox' = <<"Success", "Data saved to", output_file_path>>
       /\ \A p \in OutPaths : (Api_save_to_csv(p) /\ MissingParent(p)) =>
            /\ raised' = <<"FileNotFoundError", p>>
            /\ dirs' = dirs
            /\ out_files' = out_files]_vars

\* the handler has made new/sub and written the records there
C7_Witness ==
    /\ <<"new">> \in dirs
    /\ <<"new", "sub">> \in dirs
    /\ self_results # << >>
    /\ out_files[<<"new", "sub", "out.csv">>] = csv_text(self_results)
    /\ messagebox = <<"Success", "Data saved to", <<"new", "sub", "out.csv">>>>

\* the records extract_from_file gives for the file a path names; none when
\* the file cannot be read
RecordsOfFile(path) ==
    IF path \in InPaths /\ read_text(path).exc = NoException
    THEN extract_data(read_text(path).text)
    ELSE << >>

\* C9: after every run of the Extract handler self.results holds the records
\* of the file selected at that run, or nothing when the extraction failed
\* or found nothing; never the records of an earlier run.
C9_ResultsReplaced ==
    [][App_extract_data => self_results' = RecordsOfFile(input_file_path)]_vars

\* C10: the Save button is enabled exactly when self.results is not empty,
\* the Extract button exactly when the input path is not empty, and every
\* file the Save handler has written holds at least one record.
C10_ButtonsFollowState ==
    /\ save_button = NORMAL <=> self_results # << >>
    /\ extract_button = NORMAL <=> input_file_path # NoPath
    /\ \A p \in OutPaths :
          out_files[p] # NoFile => Len(csv_parse(out_files[p])) >= 2

\* after an extraction that found records, a later one found none: Save is
\* disabled again, a file of the earlier records is on disk
C10_Witness ==
    /\ self_results = << >>
    /\ save_button = DISABLED
    /\ extract_button = NORMAL
    /\ messagebox = <<"Info", "No data found in the selected file.">>
    /\ out_files[<<"out.csv">>] # NoFile

====
